---- MODULE Spec2Model ----
(***************************************************************************)
(* A model of yex33/bigint (src/bigint.hpp): an arbitrary-precision signed *)
(* integer kept as a sign flag and a vector of decimal digits, least       *)
(* significant digit first.                                                *)
(*                                                                         *)
(* A bigint is a record [sign, val]; val is a TLA+ sequence, so the C++    *)
(* digit val[i] is val[i + 1] here.  Characters are their ASCII codes.     *)
(***************************************************************************)
EXTENDS Integers, Sequences, FiniteSets

\* ------------------------------------------------------------------------
\* Bounds of the model.

\* Largest magnitude of the integers the driver passes to bigint(int64_t).
MaxInt == 12

\* Largest number of digit characters of a text token (a leading '-' is not
\* counted).
MaxTok == 3

\* Largest magnitude a compound operator may leave in the receiver; larger
\* results are still computed by the value-returning operators.
MaxMag == 120

\* Width of the native integer.  The source's int64_t has 64 bits; the
\* constructor's behaviour depends on the width only through the minimum
\* value, whose negation does not fit.
IntBits == 16

IntMin == -(2 ^ (IntBits - 1))

IntMax == (2 ^ (IntBits - 1)) - 1

\* ------------------------------------------------------------------------
\* Program constants.

BASE == 10

\* The characters '-' and '0', by ASCII code.
Minus == 45

Zero == 48

\* C++ integer division and remainder truncate toward zero.
CQuot(x, y) == IF x >= 0 THEN x \div y ELSE -((-x) \div y)

CRem(x, y) == x - y * CQuot(x, y)

\* ------------------------------------------------------------------------
\* The value.

Bigint(s, v) == [sign |-> s, val |-> v]

\* bigint(): sign(false), val{0}
BigintDefault == Bigint(FALSE, <<0>>)

\* val.back()
Back(v) == v[Len(v)]

\* val.pop_back()
PopBack(v) == SubSeq(v, 1, Len(v) - 1)

\* val.resize(n, 0) for n > val.size()
RECURSIVE Resize(_, _)
Resize(v, n) == IF Len(v) >= n THEN v ELSE Resize(Append(v, 0), n)

\* while (val.size() > 1 && !val.back()) val.pop_back();
RECURSIVE Trim(_)
Trim(v) == IF Len(v) > 1 /\ Back(v) = 0 THEN Trim(PopBack(v)) ELSE v

is_zero(x) == Len(x.val) = 1 /\ x.val[1] = 0

\* ------------------------------------------------------------------------
\* Magnitude algorithms: on the digit vectors alone, blind to sign.

\* The loop of val_plus from index i with the carry so far.
RECURSIVE PlusLoop(_, _, _, _, _)
PlusLoop(v, bv, offset, i, carry) ==
  IF i >= Len(v)
  THEN IF carry # 0 THEN Append(v, carry) ELSE v
  ELSE LET ai == v[i + 1]
           bi == IF i - offset < Len(bv) THEN bv[i - offset + 1] ELSE 0
       IN PlusLoop([v EXCEPT ![i + 1] = CRem(ai + bi + carry, BASE)],
                   bv, offset, i + 1, CQuot(ai + bi + carry, BASE))

val_plus_no_resize(v, bv, offset) == PlusLoop(v, bv, offset, offset, 0)

val_plus(v, bv, offset) ==
  LET w == IF Len(bv) + offset > Len(v) THEN Resize(v, Len(bv) + offset) ELSE v
  IN PlusLoop(w, bv, offset, offset, 0)

RECURSIVE MonusLoop_no_borrow(_, _, _, _)
MonusLoop_no_borrow(v, bv, i, carry) ==
  IF i >= Len(v)
  THEN [val |-> v, carry |-> carry]
  ELSE LET ai == v[i + 1]
           bi == IF i < Len(bv) THEN bv[i + 1] ELSE 0
       IN MonusLoop_no_borrow(
            [v EXCEPT ![i + 1] = CRem(ai - bi - carry + BASE, BASE)],
            bv, i + 1, 0)

\* The loop of val_monus from index i with the borrow so far; the borrow
\* left after the last index is returned with the digits.
RECURSIVE MonusLoop(_, _, _, _)
MonusLoop(v, bv, i, carry) ==
  IF i >= Len(v)
  THEN [val |-> v, carry |-> carry]
  ELSE LET ai == v[i + 1]
           bi == IF i < Len(bv) THEN bv[i + 1] ELSE 0
       IN MonusLoop([v EXCEPT ![i + 1] = CRem(ai - bi - carry + BASE, BASE)],
                    bv, i + 1, IF ai - bi - carry < 0 THEN 1 ELSE 0)

val_monus_notrim(v, bv) == MonusLoop(v, bv, 0, 0).val

val_monus(v, bv) == Trim(MonusLoop(v, bv, 0, 0).val)

\* The reverse zip walk of val_less / val_more: the first index, from the
\* most significant end, where the two vectors of equal length differ,
\* or 0 when they are equal.
RECURSIVE FirstDiff(_, _, _)
FirstDiff(v, bv, i) ==
  IF i = 0 THEN 0
  ELSE IF v[i] # bv[i] THEN i ELSE FirstDiff(v, bv, i - 1)

val_less_lengths_only(v, bv) == Len(v) < Len(bv)

val_less(v, bv) ==
  IF Len(v) < Len(bv) THEN TRUE
  ELSE IF Len(v) > Len(bv) THEN FALSE
  ELSE LET i == FirstDiff(v, bv, Len(v))
       IN IF i # 0 THEN v[i] < bv[i] ELSE FALSE

val_more_or_equal(v, bv) ==
  IF Len(v) < Len(bv) THEN FALSE
  ELSE IF Len(v) > Len(bv) THEN TRUE
  ELSE LET i == FirstDiff(v, bv, Len(v))
       IN IF i # 0 THEN v[i] > bv[i] ELSE TRUE

val_more(v, bv) ==
  IF Len(v) < Len(bv) THEN FALSE
  ELSE IF Len(v) > Len(bv) THEN TRUE
  ELSE LET i == FirstDiff(v, bv, Len(v))
       IN IF i # 0 THEN v[i] > bv[i] ELSE FALSE

\* ------------------------------------------------------------------------
\* bigint(int64_t n)

\* while (n > 0) { val.push_back(chunk); n /= BASE; chunk = n % BASE; }
RECURSIVE DigitsLoop(_, _)
DigitsLoop(n, v) ==
  IF n > 0 THEN DigitsLoop(CQuot(n, BASE), Append(v, CRem(n, BASE))) ELSE v

\* The same loop in a build that has replaced the test n > 0 by n != 0,
\* which it may once it takes the result of std::abs to be non-negative.
RECURSIVE DigitsLoopNonZero(_, _)
DigitsLoopNonZero(n, v) ==
  IF n # 0 THEN DigitsLoopNonZero(CQuot(n, BASE), Append(v, CRem(n, BASE))) ELSE v

\* The constructor's body with absn the value std::abs(n) returned.
IntCtorBody(n, absn) ==
  Bigint(n < 0, DigitsLoop(absn, IF n = 0 THEN <<0>> ELSE <<>>))

\* std::abs(n) where it is defined.
Abs(n) == IF n < 0 THEN -n ELSE n

\* The loop as a rotated do-while that tests n > 0 only after the first
\* division.
RECURSIVE DigitsLoopRotated(_, _)
DigitsLoopRotated(n, v) ==
  LET w == Append(v, CRem(n, BASE))
      m == CQuot(n, BASE)
  IN IF m > 0 THEN DigitsLoopRotated(m, w) ELSE w

\* What bigint(n) can be.  std::abs of the minimum value is undefined
\* behaviour, and builds differ (g++ 12 gives each of these, at -O0, -O1,
\* -Os and -O2): the negation wraps, n stays negative and the loop is
\* skipped; the loop runs once on the negative n; the loop runs on the
\* negative n until it is 0; the magnitude is computed as if unsigned.
BigintFromIntOutcomes(n) ==
  IF n # IntMin
  THEN {IntCtorBody(n, Abs(n))}
  ELSE {IntCtorBody(n, n),
        Bigint(TRUE, DigitsLoopRotated(n, <<>>)),
        Bigint(TRUE, DigitsLoopNonZero(n, <<>>)),
        IntCtorBody(n, -n)}

\* bigint(n) for n other than the minimum value.
BigintFromInt(n) == IntCtorBody(n, Abs(n))

\* ------------------------------------------------------------------------
\* Operators against a single WORD.

\* The loop of operator+=(WORD): it stops at the first index that leaves no
\* carry.
RECURSIVE AddWordLoop(_, _, _)
AddWordLoop(v, i, carry) ==
  IF i >= Len(v)
  THEN [val |-> v, carry |-> carry]
  ELSE LET ai == v[i + 1]
           w == [v EXCEPT ![i + 1] = CRem(ai + carry, BASE)]
           c == CQuot(ai + carry, 10)
       IN IF c = 0 THEN [val |-> w, carry |-> c] ELSE AddWordLoop(w, i + 1, c)

OpAddAssignWord(x, w) ==
  LET l == AddWordLoop(x.val, 0, w)
  IN Bigint(x.sign, IF l.carry > 0 THEN Append(l.val, l.carry) ELSE l.val)

\* The loop of operator*=(WORD) over every digit.
RECURSIVE MulWordLoop(_, _, _, _)
MulWordLoop(v, w, i, carry) ==
  IF i >= Len(v)
  THEN [val |-> v, carry |-> carry]
  ELSE LET prod == v[i + 1] * w
       IN MulWordLoop([v EXCEPT ![i + 1] = CRem(prod + carry, BASE)],
                      w, i + 1, CQuot(prod + carry, BASE))

OpMulAssignWord_no_zero_word(x, w) ==
  IF is_zero(x) THEN x
  ELSE LET l == MulWordLoop(x.val, w, 0, 0)
       IN Bigint(x.sign, IF l.carry > 0 THEN Append(l.val, l.carry) ELSE l.val)

OpMulAssignWord(x, w) ==
  IF is_zero(x) THEN x
  ELSE IF w = 0 THEN Bigint(FALSE, <<0>>)
  ELSE LET l == MulWordLoop(x.val, w, 0, 0)
       IN Bigint(x.sign, IF l.carry > 0 THEN Append(l.val, l.carry) ELSE l.val)

\* ------------------------------------------------------------------------
\* Signed composition.

OpAddAssign_keeps_sign_of_zero(x, y) ==
  IF is_zero(x) THEN Bigint(y.sign, val_plus(x.val, y.val, 0))
  ELSE IF x.sign = y.sign THEN Bigint(x.sign, val_plus(x.val, y.val, 0))
  ELSE IF val_less(x.val, y.val)
       THEN Bigint(y.sign, val_monus(y.val, x.val))
       ELSE Bigint(x.sign, val_monus(x.val, y.val))

OpAddAssign_zero_keeps_own_sign(x, y) ==
  IF is_zero(x) THEN Bigint(x.sign, val_plus(x.val, y.val, 0))
  ELSE IF x.sign = y.sign THEN Bigint(x.sign, val_plus(x.val, y.val, 0))
  ELSE LET m == IF val_less(x.val, y.val)
                THEN Bigint(y.sign, val_monus(y.val, x.val))
                ELSE Bigint(x.sign, val_monus(x.val, y.val))
       IN IF is_zero(m) THEN Bigint(FALSE, m.val) ELSE m

OpAddAssign_sign_of_receiver(x, y) ==
  IF is_zero(x) THEN Bigint(y.sign, val_plus(x.val, y.val, 0))
  ELSE IF x.sign = y.sign THEN Bigint(x.sign, val_plus(x.val, y.val, 0))
  ELSE LET m == IF val_less(x.val, y.val)
                THEN Bigint(x.sign, val_monus(y.val, x.val))
                ELSE Bigint(x.sign, val_monus(x.val, y.val))
       IN IF is_zero(m) THEN Bigint(FALSE, m.val) ELSE m

\* operator+=(const bigint &b)
OpAddAssign(x, y) ==
  IF is_zero(x) THEN Bigint(y.sign, val_plus(x.val, y.val, 0))
  ELSE IF x.sign = y.sign THEN Bigint(x.sign, val_plus(x.val, y.val, 0))
  ELSE LET m == IF val_less(x.val, y.val)
                THEN Bigint(y.sign, val_monus(y.val, x.val))
                ELSE Bigint(x.sign, val_monus(x.val, y.val))
       IN IF is_zero(m) THEN Bigint(FALSE, m.val) ELSE m

\* The call of val_monus that operator+=(const bigint &b) makes on receiver
\* x: none when x is zero or the signs agree; otherwise val_monus runs on
\* recv with the argument arg, recv being b's digits copied into the
\* receiver when val_less(b) holds, the receiver's own digits when not.
MonusCall(x, y) ==
  IF is_zero(x) \/ x.sign = y.sign
  THEN [called |-> FALSE, recv |-> <<>>, arg |-> <<>>]
  ELSE IF val_less(x.val, y.val)
       THEN [called |-> TRUE, recv |-> y.val, arg |-> x.val]
       ELSE [called |-> TRUE, recv |-> x.val, arg |-> y.val]

\* operator+(const bigint &b): bigint res; res += *this; res += b;
OpAdd(x, y) == OpAddAssign(OpAddAssign(BigintDefault, x), y)

\* operator+(WORD b)
OpAddWord(x, w) == OpAddAssignWord(OpAddAssign(BigintDefault, x), w)

\* operator*(WORD b)
OpMulWord(x, w) == OpMulAssignWord(OpAddAssign(BigintDefault, x), w)

RECURSIVE MultLoop_no_offset(_, _, _, _)
MultLoop_no_offset(x, bv, i, s) ==
  IF i >= Len(bv) THEN s
  ELSE MultLoop_no_offset(x, bv, i + 1,
                          val_plus(s, OpMulWord(x, bv[i + 1]).val, 0))

\* The loop of val_mult from index i of b with the running sum s.
RECURSIVE MultLoop(_, _, _, _)
MultLoop(x, bv, i, s) ==
  IF i >= Len(bv) THEN s
  ELSE MultLoop(x, bv, i + 1, val_plus(s, OpMulWord(x, bv[i + 1]).val, i))

val_mult(x, y) == Trim(MultLoop(x, y.val, 0, BigintFromInt(0).val))

\* The loop of val_mult step by step: for each index i of b the partial
\* product p = *this * b.val[i], and the running sum before and after
\* s.val_plus(p, i).
RECURSIVE MultSteps(_, _, _, _)
MultSteps(x, bv, i, s) ==
  IF i >= Len(bv) THEN <<>>
  ELSE LET p == OpMulWord(x, bv[i + 1]).val
           t == val_plus(s, p, i)
       IN <<[i |-> i, p |-> p, before |-> s, after |-> t]>>
            \o MultSteps(x, bv, i + 1, t)

OpMulAssign_no_zero_check(x, y) ==
  Bigint(x.sign # y.sign, val_mult(Bigint(x.sign # y.sign, x.val), y))

OpMulAssign_sign_of_receiver(x, y) ==
  LET m == Bigint(x.sign, val_mult(Bigint(x.sign, x.val), y))
  IN IF is_zero(m) THEN Bigint(FALSE, m.val) ELSE m

\* operator*=(const bigint &b)
OpMulAssign(x, y) ==
  LET m == Bigint(x.sign # y.sign, val_mult(Bigint(x.sign # y.sign, x.val), y))
  IN IF is_zero(m) THEN Bigint(FALSE, m.val) ELSE m

\* operator*(const bigint &b)
OpMul(x, y) == OpMulAssign(OpAddAssign(BigintDefault, x), y)

OpNeg_flips_zero(x) ==
  LET res == OpAddAssign(BigintDefault, x) IN Bigint(~res.sign, res.val)

OpNeg_makes_negative(x) ==
  LET res == OpAddAssign(BigintDefault, x)
  IN IF ~is_zero(x) THEN Bigint(TRUE, res.val) ELSE res

\* operator-() const
OpNeg(x) ==
  LET res == OpAddAssign(BigintDefault, x)
  IN IF ~is_zero(x) THEN Bigint(~res.sign, res.val) ELSE res

\* operator-=(const bigint &b)
OpSubAssign(x, y) == OpAddAssign(x, OpNeg(y))

\* operator-(const bigint &b)
OpSub(x, y) == OpSubAssign(OpAddAssign(BigintDefault, x), y)

\* ------------------------------------------------------------------------
\* Increment and decrement.  Each gives the receiver it leaves (obj) and
\* the value it returns (ret).

\* operator++(): *this += 1, the WORD overload; return *this;
OpPreInc(x) ==
  LET r == OpAddAssignWord(x, 1) IN [obj |-> r, ret |-> r]

\* operator++(int): bigint res; res += *this; *this += 1; return res;
OpPostInc(x) ==
  [obj |-> OpAddAssignWord(x, 1), ret |-> OpAddAssign(BigintDefault, x)]

\* operator--(): *this -= bigint(1); return *this;
OpPreDec(x) ==
  LET r == OpSubAssign(x, BigintFromInt(1)) IN [obj |-> r, ret |-> r]

\* operator--(int): bigint res; res += *this; *this -= bigint(1); return res;
OpPostDec(x) ==
  [obj |-> OpSubAssign(x, BigintFromInt(1)),
   ret |-> OpAddAssign(BigintDefault, x)]

\* ------------------------------------------------------------------------
\* Compound operators whose right-hand operand b is the receiver itself:
\* every read of b reads the receiver as it is at that point.

RECURSIVE PlusLoopSelf_carry_of_written(_, _, _)
PlusLoopSelf_carry_of_written(v, i, carry) ==
  IF i >= Len(v)
  THEN IF carry # 0 THEN Append(v, carry) ELSE v
  ELSE LET ai == v[i + 1]
           bi == IF i < Len(v) THEN v[i + 1] ELSE 0
           w == [v EXCEPT ![i + 1] = CRem(ai + bi + carry, BASE)]
       IN PlusLoopSelf_carry_of_written(
            w, i + 1, CQuot(w[i + 1] + w[i + 1] + carry, BASE))

\* The loop of val_plus(*this, 0): ai and bi are both read from val[i]
\* before val[i] is written.
RECURSIVE PlusLoopSelf(_, _, _)
PlusLoopSelf(v, i, carry) ==
  IF i >= Len(v)
  THEN IF carry # 0 THEN Append(v, carry) ELSE v
  ELSE LET ai == v[i + 1]
           bi == IF i < Len(v) THEN v[i + 1] ELSE 0
       IN PlusLoopSelf([v EXCEPT ![i + 1] = CRem(ai + bi + carry, BASE)],
                       i + 1, CQuot(ai + bi + carry, BASE))

\* a += a: sign = b.sign keeps the sign, sign == b.sign always holds, so
\* both branches taken are val_plus(*this) and val_monus is never called.
OpAddAssignSelf(x) == Bigint(x.sign, PlusLoopSelf(x.val, 0, 0))

\* a -= a: *this += -b, and -b is a temporary that is not the receiver.
OpSubAssignSelf(x) == OpAddAssign(x, OpNeg(x))

\* a *= a: sign = (sign != b.sign) reads the receiver's own sign, then
\* val_mult reads b.val while the receiver's val is untouched until the
\* final val = s.val.
OpMulAssignSelf(x) ==
  LET t == Bigint(x.sign # x.sign, x.val)
      m == Bigint(t.sign, val_mult(t, t))
  IN IF is_zero(m) THEN Bigint(FALSE, m.val) ELSE m

\* ------------------------------------------------------------------------
\* Comparison operators.

OpEq(x, y) == x.sign = y.sign /\ x.val = y.val

OpNe(x, y) == x.sign # y.sign \/ x.val # y.val

OpLess_not_inverted(x, y) ==
  IF x.sign /\ ~y.sign THEN TRUE
  ELSE IF ~x.sign /\ y.sign THEN FALSE
  ELSE val_less(x.val, y.val)

OpLess(x, y) ==
  IF x.sign /\ ~y.sign THEN TRUE
  ELSE IF ~x.sign /\ y.sign THEN FALSE
  ELSE IF ~x.sign THEN val_less(x.val, y.val)
  ELSE val_more(x.val, y.val)

OpMore(x, y) ==
  IF x.sign /\ ~y.sign THEN FALSE
  ELSE IF ~x.sign /\ y.sign THEN TRUE
  ELSE IF ~x.sign THEN val_more(x.val, y.val)
  ELSE val_less(x.val, y.val)

OpLessEq(x, y) == ~OpMore(x, y)

OpMoreEq(x, y) == ~OpLess(x, y)

\* ------------------------------------------------------------------------
\* operator<<(std::ostream &os, const bigint &a)

\* The characters of a non-negative int, most significant first.
RECURSIVE NatText(_)
NatText(n) ==
  IF n < 10 THEN <<Zero + n>> ELSE Append(NatText(n \div 10), Zero + (n % 10))

\* os << ai for one WORD, a signed native integer.
WordText(d) == IF d < 0 THEN <<Minus>> \o NatText(-d) ELSE NatText(d)

\* The loop over val reversed: the words from index i down to index 0.
RECURSIVE DigitsText(_, _)
DigitsText(v, i) ==
  IF i = 0 THEN <<>> ELSE WordText(v[i]) \o DigitsText(v, i - 1)

Render_sign_last(x) ==
  DigitsText(x.val, Len(x.val)) \o (IF x.sign THEN <<Minus>> ELSE <<>>)

Render(x) ==
  (IF x.sign THEN <<Minus>> ELSE <<>>) \o DigitsText(x.val, Len(x.val))

\* ------------------------------------------------------------------------
\* bigint(std::string_view sv, int base)

IsDigitCh(ch) == ch >= 48 /\ ch <= 57

IsUpperCh(ch) == ch >= 65 /\ ch <= 90

IsLowerCh(ch) == ch >= 97 /\ ch <= 122

isalnum_or_blank(ch) == IsDigitCh(ch) \/ IsUpperCh(ch) \/ IsLowerCh(ch) \/ ch = 32

\* std::isalnum in the "C" locale
isalnum(ch) == IsDigitCh(ch) \/ IsUpperCh(ch) \/ IsLowerCh(ch)

\* std::toupper in the "C" locale
toupper(ch) == IF IsLowerCh(ch) THEN ch - 32 ELSE ch

\* The value std::from_chars gives a one-character window: its digit value,
\* letters of either case counting from 10.  Every character that passed
\* the validation loop has a digit value below base, so the call never fails.
from_chars(ch) ==
  IF IsDigitCh(ch) THEN ch - 48
  ELSE IF IsUpperCh(ch) THEN ch - 55
  ELSE ch - 87

OutOfRange_digits_only(ch, base) == IsDigitCh(ch) /\ ch - Zero >= base

\* std::toupper(ch) - '0' >= base
OutOfRange(ch, base) == toupper(ch) - Zero >= base

RECURSIVE ValidateLoop_minus_repeats(_, _, _, _, _)
ValidateLoop_minus_repeats(sv, base, i, alnum_flg, sign) ==
  IF i >= Len(sv)
  THEN [thrown |-> FALSE, why |-> "none", ch |-> 0, sign |-> sign]
  ELSE LET ch == sv[i + 1]
       IN IF isalnum(ch)
          THEN IF OutOfRange(ch, base)
               THEN [thrown |-> TRUE, why |-> "range", ch |-> ch, sign |-> sign]
               ELSE ValidateLoop_minus_repeats(sv, base, i + 1, TRUE, sign)
          ELSE IF ch = Minus /\ ~alnum_flg
               THEN ValidateLoop_minus_repeats(sv, base, i + 1, alnum_flg, TRUE)
               ELSE [thrown |-> TRUE, why |-> "char", ch |-> ch, sign |-> sign]

\* The validation loop from index i: what it throws, or the sign it leaves.
RECURSIVE ValidateLoop(_, _, _, _, _)
ValidateLoop(sv, base, i, alnum_flg, sign) ==
  IF i >= Len(sv)
  THEN [thrown |-> FALSE, why |-> "none", ch |-> 0, sign |-> sign]
  ELSE LET ch == sv[i + 1]
       IN IF isalnum(ch)
          THEN IF OutOfRange(ch, base)
               THEN [thrown |-> TRUE, why |-> "range", ch |-> ch, sign |-> sign]
               ELSE ValidateLoop(sv, base, i + 1, TRUE, sign)
          ELSE IF ch = Minus /\ ~alnum_flg /\ ~sign
               THEN ValidateLoop(sv, base, i + 1, alnum_flg, TRUE)
               ELSE [thrown |-> TRUE, why |-> "char", ch |-> ch, sign |-> sign]

\* The conversion loop from position pos; wnd_size is 1, so offset is 0 and
\* every window is one character: *this *= base; *this += wnd;
RECURSIVE ConvertLoop(_, _, _, _)
ConvertLoop(sv, base, pos, x) ==
  IF pos >= Len(sv) THEN x
  ELSE ConvertLoop(sv, base, pos + 1,
         OpAddAssignWord(OpMulAssignWord(x, base), from_chars(sv[pos + 1])))

\* The conversion loop from position pos, step by step: for each position
\* the accumulator after *this *= base (mul) and after *this += wnd (add).
RECURSIVE ConvertSteps(_, _, _, _)
ConvertSteps(sv, base, pos, x) ==
  IF pos >= Len(sv) THEN <<>>
  ELSE LET m == OpMulAssignWord(x, base)
           n == OpAddAssignWord(m, from_chars(sv[pos + 1]))
       IN <<[pos |-> pos, mul |-> m, add |-> n]>>
            \o ConvertSteps(sv, base, pos + 1, n)

\* The constructor: the delegated bigint(), the validation loop, the "0"
\* case, the conversion loop.  obj is the object built, or, when thrown, the
\* object under construction at the throw.
TextCtor(sv, base) ==
  LET v == ValidateLoop(sv, base, 0, FALSE, FALSE)
      rest == IF v.sign THEN Tail(sv) ELSE sv
  IN IF v.thrown
     THEN [thrown |-> TRUE, why |-> v.why, ch |-> v.ch, obj |-> Bigint(v.sign, <<0>>)]
     ELSE IF Len(rest) = 1 /\ rest[1] = Zero
     THEN [thrown |-> FALSE, why |-> "none", ch |-> 0, obj |-> Bigint(FALSE, <<0>>)]
     ELSE [thrown |-> FALSE, why |-> "none", ch |-> 0,
           obj |-> ConvertLoop(rest, base, 0, Bigint(v.sign, <<0>>))]

\* ------------------------------------------------------------------------
\* The driver: two bigint objects a and b are constructed from the
\* arguments chosen at the start, then operators are applied to them.

VARIABLES
  pc,    \* "ctorA", "ctorB", "ready", "thrown" after a failed construction,
         \* or "done" after a test of a pair of expressions
  argA,  \* the constructor argument of a, until a is constructed
  argB,  \* the constructor argument of b, until b is constructed
  a,     \* the left operand and the receiver of the compound operators
  b,     \* the right operand
  last   \* the last operation: its name, operands and result

vars == <<pc, argA, argB, a, b, last>>

\* An object not constructed yet.
Unbuilt == Bigint(FALSE, <<>>)

NoArg == [kind |-> "none", n |-> 0, tok |-> <<>>, base |-> 0]

DefaultArg == [kind |-> "default", n |-> 0, tok |-> <<>>, base |-> 0]

IntArg(n) == [kind |-> "int", n |-> n, tok |-> <<>>, base |-> 0]

TextArg(tok, base) == [kind |-> "text", n |-> 0, tok |-> tok, base |-> base]

NoCmp == [lt |-> FALSE, gt |-> FALSE, le |-> FALSE, ge |-> FALSE,
          eq |-> FALSE, ne |-> FALSE]

\* last.argA and last.argB are the arguments a and b were constructed from,
\* kept while a and b are as constructed; last.pre is the receiver before
\* the operation; last.res the value the operation returned.
\* last.w is the WORD operand of an operator against a single WORD.
\* last.c is the third operand of an expression over three values, last.alt
\* the value of the second expression of a pair, last.out the text written
\* to the stream.
NoOp == [op |-> "none", argA |-> NoArg, argB |-> NoArg, pre |-> Unbuilt,
         res |-> Unbuilt, cmp |-> NoCmp, thrown |-> FALSE, why |-> "none",
         ch |-> 0, c |-> Unbuilt, alt |-> Unbuilt, out |-> <<>>, w |-> 0]

\* Every sequence over S of length lo..hi.
SeqsOf(S, lo, hi) == UNION {[1..n -> S] : n \in lo..hi}

\* The digits of the decimal tokens of the arithmetic driver.
DecChars == {48, 57}

\* Decimal tokens without leading zeros: an optional '-', then "0" or
\* digits that start with a nonzero one.
DecTokens ==
  LET digits == {t \in SeqsOf(DecChars, 1, MaxTok) : Len(t) = 1 \/ t[1] # Zero}
  IN digits \cup {<<Minus>> \o t : t \in digits}

\* The arguments of the arithmetic driver: bigint(), bigint(n) away from the
\* minimum value, and decimal tokens without leading zeros.
CanonArgs ==
  {DefaultArg} \cup {IntArg(n) : n \in -MaxInt..MaxInt}
    \cup {TextArg(t, 10) : t \in DecTokens}

\* The integers of the integer-constructor driver: small ones and the ends
\* of the native range.
IntInputs == (-MaxInt..MaxInt) \cup {IntMin, IntMin + 1, IntMax - 1, IntMax}

\* The tokens of the decimal driver: every token matching -?[0-9]+ over
\* these digits, leading zeros included.
DecDigitChars == {48, 49, 57}

DecimalTokens ==
  LET digits == SeqsOf(DecDigitChars, 1, MaxTok)
  IN digits \cup {<<Minus>> \o t : t \in digits}

\* The tokens and bases of the base driver: unsigned tokens of digits and
\* letters of either case.
AlnumChars == {48, 49, 57, 65, 102, 122}

Bases == {2, 10, 16, 18, 36}

BaseArgs ==
  {TextArg(t, base) : t \in SeqsOf(AlnumChars, 1, MaxTok), base \in Bases}

\* The tokens and bases of the token driver: every token, the empty one
\* included, over a blank, '-', digits and letters of either case.
TokChars == {32, Minus, 48, 49, 57, 71, 97}

TokBases == {2, 10, 16, 36}

TokArgs ==
  {TextArg(t, base) : t \in SeqsOf(TokChars, 0, MaxTok), base \in TokBases}

\* The integers the constructor drivers build b from.
CmpInts == {-9, -1, 0, 1, 9, 10, 15, 144}

\* What constructing from arg can do: each outcome is a thrown flag with
\* the reason, and the object.
CtorOutcomes(arg) ==
  IF arg.kind = "default"
  THEN {[thrown |-> FALSE, why |-> "none", ch |-> 0, obj |-> BigintDefault]}
  ELSE IF arg.kind = "int"
  THEN {[thrown |-> FALSE, why |-> "none", ch |-> 0, obj |-> o] :
          o \in BigintFromIntOutcomes(arg.n)}
  ELSE {TextCtor(arg.tok, arg.base)}

\* The magnitude and the integer a bigint stands for.
RECURSIVE MagOf(_)
MagOf(v) == IF Len(v) = 0 THEN 0 ELSE v[1] + BASE * MagOf(Tail(v))

Mag(x) == MagOf(x.val)

Value(x) == IF x.sign THEN -Mag(x) ELSE Mag(x)

Init ==
  /\ pc = "ctorA"
  /\ argA \in CanonArgs
  /\ argB \in CanonArgs
  /\ a = Unbuilt
  /\ b = Unbuilt
  /\ last = NoOp

\* The constructor drivers start from other arguments.
InitWith(argsA) ==
  /\ pc = "ctorA"
  /\ argA \in argsA
  /\ argB \in {IntArg(n) : n \in CmpInts}
  /\ a = Unbuilt
  /\ b = Unbuilt
  /\ last = NoOp

InitInt == InitWith({IntArg(n) : n \in IntInputs})

InitDec == InitWith({TextArg(t, 10) : t \in DecimalTokens})

InitBase == InitWith(BaseArgs)

\* The receiver driver: a is built from the arguments of the arithmetic
\* driver and b is bigint(1).
InitWord ==
  /\ pc = "ctorA"
  /\ argA \in CanonArgs
  /\ argB = IntArg(1)
  /\ a = Unbuilt
  /\ b = Unbuilt
  /\ last = NoOp

\* The token driver compares a with bigint(0).
InitTok ==
  /\ pc = "ctorA"
  /\ argA \in TokArgs
  /\ argB = IntArg(0)
  /\ a = Unbuilt
  /\ b = Unbuilt
  /\ last = NoOp

\* bigint a(argA);
ConstructA ==
  /\ pc = "ctorA"
  /\ \E out \in CtorOutcomes(argA) :
       /\ pc' = IF out.thrown THEN "thrown" ELSE "ctorB"
       /\ a' = out.obj
       /\ last' = [NoOp EXCEPT !.op = "ctorA", !.argA = argA,
                               !.thrown = out.thrown, !.why = out.why,
                               !.ch = out.ch]
  /\ argA' = NoArg
  /\ UNCHANGED <<argB, b>>

\* bigint b(argB);
ConstructB ==
  /\ pc = "ctorB"
  /\ \E out \in CtorOutcomes(argB) :
       /\ pc' = IF out.thrown THEN "thrown" ELSE "ready"
       /\ b' = out.obj
       /\ last' = [NoOp EXCEPT !.op = "ctorB", !.argA = last.argA,
                               !.argB = argB, !.thrown = out.thrown,
                               !.why = out.why, !.ch = out.ch]
  /\ argB' = NoArg
  /\ UNCHANGED <<argA, a>>

Returned_into_receiver(name, r) ==
  /\ pc = "ready"
  /\ a' = r
  /\ last' = [NoOp EXCEPT !.op = name, !.pre = a, !.res = r]
  /\ UNCHANGED <<pc, argA, argB, b>>

\* A value-returning operator: a and b stay, the result is last.res.
Returned(name, r) ==
  /\ pc = "ready"
  /\ last' = [NoOp EXCEPT !.op = name, !.pre = a, !.res = r]
  /\ UNCHANGED <<pc, argA, argB, a, b>>

\* A compound operator: the receiver a becomes r, which is also returned.
Compound(name, r) ==
  /\ pc = "ready"
  /\ Mag(r) <= MaxMag
  /\ a' = r
  /\ last' = [NoOp EXCEPT !.op = name, !.pre = a, !.res = r]
  /\ UNCHANGED <<pc, argA, argB, b>>

Add == Returned("add", OpAdd(a, b))

Sub == Returned("sub", OpSub(a, b))

Mul == Returned("mul", OpMul(a, b))

Neg == Returned("neg", OpNeg(a))

AddAssign == Compound("add_assign", OpAddAssign(a, b))

SubAssign == Compound("sub_assign", OpSubAssign(a, b))

MulAssign == Compound("mul_assign", OpMulAssign(a, b))

\* a = <the value the last operator returned>;
Assign ==
  /\ pc = "ready"
  /\ last.op \in {"add", "sub", "mul", "neg"}
  /\ Mag(last.res) <= MaxMag
  /\ a' = last.res
  /\ last' = [NoOp EXCEPT !.op = "assign", !.res = last.res]
  /\ UNCHANGED <<pc, argA, argB, b>>

\* The six comparisons of a with b.
Compare ==
  /\ pc = "ready"
  /\ last' = [NoOp EXCEPT !.op = "compare", !.pre = a,
                          !.argA = last.argA, !.argB = last.argB,
                          !.cmp = [lt |-> OpLess(a, b), gt |-> OpMore(a, b),
                                   le |-> OpLessEq(a, b), ge |-> OpMoreEq(a, b),
                                   eq |-> OpEq(a, b), ne |-> OpNe(a, b)]]
  /\ UNCHANGED <<pc, argA, argB, a, b>>

\* os << a;
Write ==
  /\ pc = "ready"
  /\ last' = [NoOp EXCEPT !.op = "write", !.pre = a,
                          !.argA = last.argA, !.argB = last.argB,
                          !.out = Render(a)]
  /\ UNCHANGED <<pc, argA, argB, a, b>>

\* A test of a pair of expressions over a, b and a third value c, each a
\* chain of value-returning operators: a and b stay, the first value is
\* last.res and the second last.alt, and the test is over.
Pair(name, c, first, second) ==
  /\ pc = "ready"
  /\ pc' = "done"
  /\ last' = [NoOp EXCEPT !.op = name, !.pre = a, !.c = c,
                          !.res = first, !.alt = second]
  /\ UNCHANGED <<argA, argB, a, b>>

\* The integers the third value is constructed from.
ThirdInts == {-12, -9, -1, 0, 1, 9, 12}

\* a + bigint(0) and bigint(0) + a
AddZero ==
  Pair("add_zero", Unbuilt,
       OpAdd(a, BigintFromInt(0)), OpAdd(BigintFromInt(0), a))

\* a + (-a) and (-a) + a
AddNegated ==
  Pair("add_negated", Unbuilt, OpAdd(a, OpNeg(a)), OpAdd(OpNeg(a), a))

\* a + b and b + a
AddSwapped == Pair("add_swapped", Unbuilt, OpAdd(a, b), OpAdd(b, a))

\* (a + b) + c and a + (b + c)
AddChained ==
  \E n \in ThirdInts :
    LET c == BigintFromInt(n)
    IN Pair("add_chained", c, OpAdd(OpAdd(a, b), c), OpAdd(a, OpAdd(b, c)))

\* a * b and b * a
MulSwapped == Pair("mul_swapped", Unbuilt, OpMul(a, b), OpMul(b, a))

\* a * (b + c) and a * b + a * c
MulOverAdd ==
  \E n \in ThirdInts :
    LET c == BigintFromInt(n)
    IN Pair("mul_over_add", c,
            OpMul(a, OpAdd(b, c)), OpAdd(OpMul(a, b), OpMul(a, c)))

\* a * (-b) and -(a * b)
MulNegated ==
  Pair("mul_negated", Unbuilt, OpMul(a, OpNeg(b)), OpNeg(OpMul(a, b)))

\* (-a) * (-b) and a * b
MulBothNegated ==
  Pair("mul_both_negated", Unbuilt, OpMul(OpNeg(a), OpNeg(b)), OpMul(a, b))

\* -a and -(-a)
NegTwice == Pair("neg_twice", Unbuilt, OpNeg(a), OpNeg(OpNeg(a)))

\* A test of one operator on a that may change a: a becomes obj, the
\* operator returns ret, and the test is over.
Finished(name, w, obj, ret) ==
  /\ pc = "ready"
  /\ pc' = "done"
  /\ a' = obj
  /\ last' = [NoOp EXCEPT !.op = name, !.pre = a, !.w = w, !.res = ret]
  /\ UNCHANGED <<argA, argB, b>>

\* The WORD operands: the values of one digit.
Words == 0..(BASE - 1)

\* ++a
PreInc == Finished("pre_inc", 0, OpPreInc(a).obj, OpPreInc(a).ret)

\* a++
PostInc == Finished("post_inc", 0, OpPostInc(a).obj, OpPostInc(a).ret)

\* --a
PreDec == Finished("pre_dec", 0, OpPreDec(a).obj, OpPreDec(a).ret)

\* a--
PostDec == Finished("post_dec", 0, OpPostDec(a).obj, OpPostDec(a).ret)

\* ++a; --a;
IncThenDec ==
  LET r == OpPreDec(OpPreInc(a).obj)
  IN Finished("inc_then_dec", 0, r.obj, r.ret)

\* a + d
AddWord == \E d \in Words : Finished("add_word", d, a, OpAddWord(a, d))

\* a += d
AddAssignWord ==
  \E d \in Words :
    Finished("add_assign_word", d, OpAddAssignWord(a, d), OpAddAssignWord(a, d))

\* a * d
MulWord == \E d \in Words : Finished("mul_word", d, a, OpMulWord(a, d))

\* a *= d
MulAssignWord ==
  \E d \in Words :
    Finished("mul_assign_word", d, OpMulAssignWord(a, d), OpMulAssignWord(a, d))

\* a += a
AddAssignSelf ==
  Finished("add_assign_self", 0, OpAddAssignSelf(a), OpAddAssignSelf(a))

\* a -= a
SubAssignSelf ==
  Finished("sub_assign_self", 0, OpSubAssignSelf(a), OpSubAssignSelf(a))

\* a *= a
MulAssignSelf ==
  Finished("mul_assign_self", 0, OpMulAssignSelf(a), OpMulAssignSelf(a))

Next ==
  \/ ConstructA
  \/ ConstructB
  \/ Add
  \/ Sub
  \/ Mul
  \/ Neg
  \/ AddAssign
  \/ SubAssign
  \/ MulAssign
  \/ Assign
  \/ Compare

NextCtor ==
  \/ ConstructA
  \/ ConstructB
  \/ Compare

NextText ==
  \/ ConstructA
  \/ ConstructB
  \/ Compare
  \/ Write

NextLaws ==
  \/ ConstructA
  \/ ConstructB
  \/ AddZero
  \/ AddNegated
  \/ AddSwapped
  \/ AddChained
  \/ MulSwapped
  \/ MulOverAdd
  \/ MulNegated
  \/ MulBothNegated
  \/ NegTwice

NextWord ==
  \/ ConstructA
  \/ ConstructB
  \/ PreInc
  \/ PostInc
  \/ PreDec
  \/ PostDec
  \/ IncThenDec
  \/ AddWord
  \/ AddAssignWord
  \/ MulWord
  \/ MulAssignWord
  \/ AddAssignSelf
  \/ SubAssignSelf
  \/ MulAssignSelf

\* The arithmetic driver.
Spec == Init /\ [][Next]_vars

\* The integer-constructor driver: a is bigint(n).
SpecInt == InitInt /\ [][NextCtor]_vars

\* The decimal driver: a is bigint(token) for a token matching -?[0-9]+.
SpecDec == InitDec /\ [][NextCtor]_vars

\* The base driver: a is bigint(token, base) for an unsigned token.
SpecBase == InitBase /\ [][NextCtor]_vars

\* The receiver driver: one operator that takes a alone, a and a WORD, or
\* a and a itself.
SpecWord == InitWord /\ [][NextWord]_vars

\* The expression driver: pairs of expressions over the constructed a and b
\* and a third value.
SpecLaws == Init /\ [][NextLaws]_vars

\* The token driver: a is bigint(token, base) for any token, then a is
\* compared with bigint(0) and written to a stream.
SpecTok == InitTok /\ [][NextText]_vars

\* ------------------------------------------------------------------------
\* The vocabulary of the properties.

\* Canonical form: at least one digit, every digit in 0..9, no most
\* significant zero digit unless the digits are [0], and no negative zero.
Canonical(x) ==
  /\ Len(x.val) >= 1
  /\ \A i \in 1..Len(x.val) : x.val[i] \in 0..(BASE - 1)
  /\ Len(x.val) > 1 => Back(x.val) # 0
  /\ x.val = <<0>> => ~x.sign

\* The operations that return a bigint.
ArithOps ==
  {"add", "sub", "mul", "neg", "add_assign", "sub_assign", "mul_assign", "assign"}

\* C1: canonical form is closed under arithmetic.  Starting from bigint(),
\* bigint(n) and decimal tokens without leading zeros, the operands and
\* every value produced by +, -, *, unary -, +=, -=, *= have at least one
\* digit, digits in 0..9, a nonzero most significant digit when longer than
\* one digit, and sign = false when the digits are [0].
C1_CanonicalClosed ==
  /\ pc \in {"ctorB", "ready"} => Canonical(a)
  /\ pc = "ready" => Canonical(b)
  /\ last.op \in ArithOps => Canonical(last.res)
  /\ last.op \in ArithOps \ {"assign"} => Canonical(last.pre)

\* A compound operator whose magnitude subtraction had to trim: the
\* receiver had three digits and is left with two.
C1_Witness ==
  /\ last.op \in {"add_assign", "sub_assign"}
  /\ Len(last.pre.val) = 3
  /\ Len(a.val) = 2
  /\ a = last.res

\* C2: signed addition agrees with integer addition.  a + b and a += b are
\* the canonical representation of value(a) + value(b); with differing
\* signs the result has the sign of the operand of larger magnitude, and a
\* zero result is not negative.
C2_AddCorrect ==
  last.op \in {"add", "add_assign"} =>
    /\ Canonical(last.res)
    /\ Value(last.res) = Value(last.pre) + Value(b)
    /\ (last.pre.sign # b.sign /\ Mag(last.pre) < Mag(b)) => last.res.sign = b.sign
    /\ (last.pre.sign # b.sign /\ Mag(last.pre) > Mag(b)) => last.res.sign = last.pre.sign
    /\ Value(last.pre) + Value(b) = 0 => last.res = Bigint(FALSE, <<0>>)

\* An addition of a negative a and a positive b of larger magnitude, three
\* digits long, whose difference has two digits.
C2_Witness ==
  /\ last.op = "add"
  /\ last.pre.sign /\ ~b.sign
  /\ Mag(last.pre) < Mag(b)
  /\ Len(b.val) = 3
  /\ Len(last.res.val) = 2

\* C3: signed subtraction is correct.  a - b equals a + (-b) and is the
\* canonical representation of value(a) - value(b); a - a is the
\* non-negative zero and 0 - b equals -b.
C3_SubCorrect ==
  last.op \in {"sub", "sub_assign"} =>
    /\ OpEq(last.res, OpAdd(last.pre, OpNeg(b)))
    /\ Canonical(last.res)
    /\ Value(last.res) = Value(last.pre) - Value(b)
    /\ last.pre = b => last.res = Bigint(FALSE, <<0>>)
    /\ Value(last.pre) = 0 => OpEq(last.res, OpNeg(b))

\* A subtraction a - a of a nonzero negative a.
C3_Witness ==
  /\ last.op = "sub"
  /\ last.pre = b
  /\ b.sign
  /\ Len(b.val) >= 2

\* C4: signed multiplication agrees with integer multiplication.  a * b and
\* a *= b are the canonical representation of value(a) * value(b): the sign
\* is a.sign XOR b.sign, except that a zero product is the non-negative
\* zero [0].
C4_MulCorrect ==
  last.op \in {"mul", "mul_assign"} =>
    /\ Canonical(last.res)
    /\ Value(last.res) = Value(last.pre) * Value(b)
    /\ Value(last.pre) * Value(b) # 0 => last.res.sign = (last.pre.sign # b.sign)
    /\ Value(last.pre) * Value(b) = 0 => last.res = Bigint(FALSE, <<0>>)

\* A product of a negative operand with zero.
C4_Witness ==
  /\ last.op = "mul"
  /\ last.pre.sign # b.sign
  /\ (is_zero(last.pre) \/ is_zero(b))

\* C5: the ordering operators agree with integer order.  <, >, <=, >= on a
\* and b are the comparisons of value(a) with value(b); operands of
\* different signs are ordered by sign, and for two negative operands the
\* larger magnitude is the smaller value.
C5_OrderCorrect ==
  last.op = "compare" =>
    /\ last.cmp.lt = (Value(a) < Value(b))
    /\ last.cmp.gt = (Value(a) > Value(b))
    /\ last.cmp.le = (Value(a) <= Value(b))
    /\ last.cmp.ge = (Value(a) >= Value(b))
    /\ (a.sign /\ ~b.sign) => last.cmp.lt /\ ~last.cmp.gt
    /\ (a.sign /\ b.sign) => last.cmp.lt = (Mag(a) > Mag(b))
    /\ val_less(a.val, b.val) = (Mag(a) < Mag(b))
    /\ val_more(a.val, b.val) = (Mag(a) > Mag(b))

\* A comparison of two negative operands of the same length that differ.
C5_Witness ==
  /\ last.op = "compare"
  /\ a.sign /\ b.sign
  /\ Len(a.val) = Len(b.val)
  /\ Len(a.val) >= 2
  /\ a.val # b.val
  /\ last.cmp.lt

\* C6: ordering totality.  Exactly one of a < b, a == b, a > b holds.
C6_Totality ==
  last.op = "compare" =>
    /\ last.cmp.lt \/ last.cmp.eq \/ last.cmp.gt
    /\ ~(last.cmp.lt /\ last.cmp.eq)
    /\ ~(last.cmp.lt /\ last.cmp.gt)
    /\ ~(last.cmp.eq /\ last.cmp.gt)

\* A comparison of two equal negative operands of several digits.
C6_Witness ==
  /\ last.op = "compare"
  /\ last.cmp.eq
  /\ a.sign
  /\ Len(a.val) >= 2

\* The digit value of a character: '0'-'9' are 0..9, letters of either case
\* 10..35; anything else has none (36).
DigitValue(ch) ==
  IF ch >= 48 /\ ch <= 57 THEN ch - 48
  ELSE IF ch >= 65 /\ ch <= 90 THEN ch - 65 + 10
  ELSE IF ch >= 97 /\ ch <= 122 THEN ch - 97 + 10
  ELSE 36

\* The characters of a token after its leading '-', if it has one.
DigitsPart(tok) == IF Len(tok) >= 1 /\ tok[1] = Minus THEN Tail(tok) ELSE tok

\* An optional '-' followed by at least one character, each a digit of the
\* base.
ValidToken(tok, base) ==
  /\ Len(DigitsPart(tok)) >= 1
  /\ \A i \in 1..Len(DigitsPart(tok)) : DigitValue(DigitsPart(tok)[i]) < base

\* A token matching -?[0-9]+
IsDecimalToken(tok) ==
  /\ Len(DigitsPart(tok)) >= 1
  /\ \A i \in 1..Len(DigitsPart(tok)) : DigitValue(DigitsPart(tok)[i]) < 10

\* The positional value of digit characters in a base, most significant
\* first.
RECURSIVE PositionalValue(_, _)
PositionalValue(ds, base) ==
  IF Len(ds) = 0 THEN 0
  ELSE base * PositionalValue(SubSeq(ds, 1, Len(ds) - 1), base)
         + DigitValue(ds[Len(ds)])

\* The integer a valid token denotes.
TokenValue(tok, base) ==
  IF Len(tok) >= 1 /\ tok[1] = Minus
  THEN -PositionalValue(DigitsPart(tok), base)
  ELSE PositionalValue(tok, base)

\* The decimal expansion of m >= 0, least significant digit first.
RECURSIVE DecimalExpansion(_)
DecimalExpansion(m) ==
  IF m < 10 THEN <<m>> ELSE <<m % 10>> \o DecimalExpansion(m \div 10)

\* C7: equality is value equality.  For values obtained from the
\* constructors, a == b holds iff value(a) = value(b), and a != b is the
\* negation of a == b.
C7_EqualityIsValueEquality ==
  last.op = "compare" =>
    /\ last.cmp.eq = (Value(a) = Value(b))
    /\ last.cmp.ne = ~last.cmp.eq

\* C8: construction from a native integer is exact for every n, the minimum
\* value included: sign = (n < 0) and the digits are the decimal expansion
\* of |n|, least significant first, at least one digit.
C8_IntCtorExact ==
  (last.op = "ctorA" /\ last.argA.kind = "int") =>
    /\ a.sign = (last.argA.n < 0)
    /\ a.val = DecimalExpansion(Abs(last.argA.n))
    /\ Len(a.val) >= 1

\* C9: base-10 text construction yields the denoted integer.  For every
\* token matching -?[0-9]+, bigint(token) is built without error, is the
\* canonical representation of the integer the token denotes, and equals
\* bigint(n) for that integer n.
C9_DecimalTextCtor ==
  (/\ last.op = "ctorA"
   /\ last.argA.kind = "text"
   /\ last.argA.base = 10
   /\ IsDecimalToken(last.argA.tok)) =>
    /\ ~last.thrown
    /\ Canonical(a)
    /\ Value(a) = TokenValue(last.argA.tok, 10)
    /\ OpEq(a, BigintFromInt(TokenValue(last.argA.tok, 10)))

\* C10: text construction works in any base.  For every base in 2..36 and
\* every token of an optional '-' and characters whose digit value is below
\* the base, construction succeeds and the result is the canonical
\* representation of the positional value of the token in that base.
C10_AnyBaseTextCtor ==
  (/\ last.op = "ctorA"
   /\ last.argA.kind = "text"
   /\ last.argA.base \in 2..36
   /\ ValidToken(last.argA.tok, last.argA.base)) =>
    /\ ~last.thrown
    /\ Canonical(a)
    /\ Value(a) = TokenValue(last.argA.tok, last.argA.base)

\* The construction of a from a text token has just run.
TextCtorRan == last.op = "ctorA" /\ last.argA.kind = "text"

\* C11: '-' is accepted only as the very first character and only once.
\* For every base, a token with a '-' at any index other than 0 (after a
\* digit, trailing, or a second leading '-') makes construction throw
\* invalid_argument.
C11_MinusOnlyFirst ==
  (/\ TextCtorRan
   /\ \E i \in 2..Len(last.argA.tok) : last.argA.tok[i] = Minus) =>
    last.thrown

\* A token that starts with two '-' and then a digit of the base is
\* rejected at the second '-'.
C11_Witness ==
  /\ TextCtorRan
  /\ Len(last.argA.tok) = 3
  /\ last.argA.tok[1] = Minus
  /\ last.argA.tok[2] = Minus
  /\ last.argA.tok[3] = 49
  /\ last.thrown
  /\ last.why = "char"
  /\ last.ch = Minus

\* C12: a character that is neither alphanumeric nor '-' is rejected at any
\* position: a token containing one (a blank before, inside or after the
\* digits) makes construction throw invalid_argument; nothing is trimmed.
C12_InvalidCharRejected ==
  (/\ TextCtorRan
   /\ \E i \in 1..Len(last.argA.tok) :
        DigitValue(last.argA.tok[i]) = 36 /\ last.argA.tok[i] # Minus) =>
    last.thrown

\* A token of digits of the base followed by a blank is rejected at the
\* blank.
C12_Witness ==
  /\ TextCtorRan
  /\ last.argA.base = 10
  /\ last.argA.tok = <<49, 57, 32>>
  /\ last.thrown
  /\ last.why = "char"
  /\ last.ch = 32

\* C13: out-of-range digits are rejected.  For every base, a token that
\* contains an alphanumeric character whose digit value ('0'-'9' are 0..9,
\* letters of either case 10..35) is at least the base makes construction
\* throw invalid_argument.
C13_OutOfRangeRejected ==
  (/\ TextCtorRan
   /\ \E i \in 1..Len(last.argA.tok) :
        /\ DigitValue(last.argA.tok[i]) < 36
        /\ DigitValue(last.argA.tok[i]) >= last.argA.base) =>
    last.thrown

\* "19a" in base 10 is rejected at the letter, after two digits in range.
C13_Witness ==
  /\ TextCtorRan
  /\ last.argA.base = 10
  /\ last.argA.tok = <<49, 57, 97>>
  /\ last.thrown
  /\ last.why = "range"
  /\ last.ch = 97

\* C14: every token the text constructor accepts yields a canonical value:
\* at least one digit, digits in 0..9, no most significant zero digit
\* unless the digits are [0], and sign = false when the magnitude is zero,
\* so that a value of zero compares == to bigint(0).
C14_AcceptedIsCanonical ==
  /\ (TextCtorRan /\ ~last.thrown) => Canonical(a)
  /\ (/\ last.op = "compare"
      /\ last.argA.kind = "text"
      /\ last.argB = IntArg(0)
      /\ Mag(a) = 0) => last.cmp.eq

\* A token matching -?[0-9]+ whose digits do not start with '0' unless they
\* are the single digit "0".
NoLeadingZero(tok) ==
  /\ IsDecimalToken(tok)
  /\ Len(DigitsPart(tok)) = 1 \/ DigitsPart(tok)[1] # Zero

\* C15: decimal round trip.  For every base-10 token s matching -?[0-9]+
\* without a leading zero, writing bigint(s) to a stream gives exactly s,
\* except that "-0" gives "0"; the text is a '-' iff sign is true, then the
\* digits from the most significant to the least significant.
C15_DecimalRoundTrip ==
  (/\ last.op = "write"
   /\ last.argA.kind = "text"
   /\ last.argA.base = 10
   /\ NoLeadingZero(last.argA.tok)) =>
    /\ last.out = IF last.argA.tok = <<Minus, Zero>> THEN <<Zero>>
                  ELSE last.argA.tok
    /\ Len(last.out) = Len(a.val) + (IF a.sign THEN 1 ELSE 0)
    /\ a.sign = (last.out[1] = Minus)
    /\ \A i \in 1..Len(a.val) :
         last.out[Len(last.out) - i + 1] = Zero + a.val[i]

\* "-19" is written back as "-19".
C15_Witness ==
  /\ last.op = "write"
  /\ last.argA.base = 10
  /\ last.argA.tok = <<Minus, 49, 57>>
  /\ last.out = <<Minus, 49, 57>>
  /\ a = Bigint(TRUE, <<9, 1>>)

\* The canonical zero.
ZeroValue == Bigint(FALSE, <<0>>)

\* C16: additive identity and inverse.  For every canonical a, a + 0 and
\* 0 + a have the sign and digits of a, and a + (-a) and (-a) + a are zero
\* with sign = false.
C16_AddIdentityInverse ==
  /\ last.op = "add_zero" =>
       /\ Canonical(a)
       /\ OpEq(last.res, a) /\ last.res = a
       /\ OpEq(last.alt, a) /\ last.alt = a
  /\ last.op = "add_negated" =>
       /\ OpEq(last.res, BigintFromInt(0)) /\ last.res = ZeroValue
       /\ OpEq(last.alt, BigintFromInt(0)) /\ last.alt = ZeroValue

\* a + (-a) for a negative a of three digits.
C16_Witness ==
  /\ last.op = "add_negated"
  /\ a.sign
  /\ Len(a.val) = 3
  /\ last.res = ZeroValue

\* C17: addition and multiplication are commutative and addition is
\* associative.  For canonical a, b, c of any signs, a + b == b + a,
\* (a + b) + c == a + (b + c) and a * b == b * a, == being the equality of
\* sign and digits.
C17_CommutativeAssociative ==
  /\ last.op \in {"add_swapped", "add_chained", "mul_swapped"} =>
       /\ Canonical(a) /\ Canonical(b)
       /\ OpEq(last.res, last.alt)
       /\ last.res = last.alt
  /\ last.op = "add_chained" => Canonical(last.c)

\* (a + b) + c with a negative, b positive of larger magnitude and c
\* negative of a magnitude larger than a + b.
C17_Witness ==
  /\ last.op = "add_chained"
  /\ a.sign /\ ~b.sign /\ last.c.sign
  /\ Mag(a) < Mag(b)
  /\ Mag(last.c) > Mag(b) - Mag(a)
  /\ Len(b.val) >= 2
  /\ last.res.sign

\* C18: multiplication distributes over addition.  For canonical a, b, c
\* of any signs, b + c == 0 and a == 0 included,
\* a * (b + c) == a * b + a * c.
C18_Distributive ==
  last.op = "mul_over_add" =>
    /\ Canonical(a) /\ Canonical(b) /\ Canonical(last.c)
    /\ OpEq(last.res, last.alt)
    /\ last.res = last.alt

\* a * (b + c) with a of several digits, b and c of one digit and a sum of
\* two digits.
C18_Witness ==
  /\ last.op = "mul_over_add"
  /\ Len(a.val) >= 2
  /\ Len(b.val) = 1
  /\ Len(last.c.val) = 1
  /\ Mag(b) + Mag(last.c) >= 10
  /\ b.sign = last.c.sign
  /\ Mag(last.res) = Mag(a) * (Mag(b) + Mag(last.c))

\* C19: sign rules of multiplication.  For canonical a and b,
\* a * (-b) == -(a * b) and (-a) * (-b) == a * b; when a or b is zero both
\* sides are the non-negative zero.
C19_MulSignRules ==
  last.op \in {"mul_negated", "mul_both_negated"} =>
    /\ Canonical(a) /\ Canonical(b)
    /\ OpEq(last.res, last.alt)
    /\ last.res = last.alt
    /\ (is_zero(a) \/ is_zero(b)) => last.res = ZeroValue

\* a * (-b) with a negative and b positive, both of several digits.
C19_Witness ==
  /\ last.op = "mul_negated"
  /\ a.sign /\ ~b.sign
  /\ Len(a.val) >= 2
  /\ Len(b.val) >= 2
  /\ ~last.res.sign

\* C20: negation flips the sign unless the magnitude is zero.  For every
\* canonical a, -a has the digits of a, sign(-a) = not sign(a) when a is
\* nonzero, -0 is the non-negative zero, -(-a) == a, and a is unchanged.
C20_Negation ==
  last.op = "neg_twice" =>
    /\ Canonical(a)
    /\ last.res.val = a.val
    /\ ~is_zero(a) => last.res.sign = ~a.sign
    /\ is_zero(a) => last.res = ZeroValue
    /\ OpEq(last.alt, a) /\ last.alt = a
    /\ last.pre = a

\* -a for a negative a of several digits.
C20_Witness ==
  /\ last.op = "neg_twice"
  /\ a.sign
  /\ Len(a.val) >= 2
  /\ ~last.res.sign
  /\ last.alt = a

\* C21: increment and decrement add and subtract one.  For every canonical
\* x of either sign, ++x and x++ leave x equal to the old x + bigint(1) and
\* --x and x-- leave x equal to the old x - bigint(1); the prefix forms
\* return the updated value and the postfix forms the value before the
\* update; ++x followed by --x restores x.
C21_IncDec ==
  Canonical(last.pre) =>
    /\ last.op \in {"pre_inc", "post_inc"} =>
         OpEq(a, OpAdd(last.pre, BigintFromInt(1)))
    /\ last.op \in {"pre_dec", "post_dec"} =>
         OpEq(a, OpSub(last.pre, BigintFromInt(1)))
    /\ last.op \in {"pre_inc", "pre_dec"} => last.res = a
    /\ last.op \in {"post_inc", "post_dec"} => last.res = last.pre
    /\ last.op = "inc_then_dec" => a = last.pre

\* C22: adding a digit-sized constant agrees with adding the same bigint.
\* For every canonical a of either sign and every d in 0..9, a + d and
\* a += d give a canonical value == a + bigint(d).
C22_AddWordAgrees ==
  (last.op \in {"add_word", "add_assign_word"} /\ Canonical(last.pre)) =>
    /\ OpEq(last.res, OpAdd(last.pre, BigintFromInt(last.w)))
    /\ Canonical(last.res)
    /\ last.op = "add_assign_word" => a = last.res

\* C23: multiplying by a digit-sized constant agrees with multiplying by the
\* same bigint.  For every canonical a of either sign and every d in 0..9,
\* a * d and a *= d give a canonical value == a * bigint(d), the
\* non-negative zero when d = 0 or a = 0.
C23_MulWordAgrees ==
  (last.op \in {"mul_word", "mul_assign_word"} /\ Canonical(last.pre)) =>
    /\ OpEq(last.res, OpMul(last.pre, BigintFromInt(last.w)))
    /\ Value(last.res) = Value(last.pre) * last.w
    /\ Canonical(last.res)
    /\ (last.w = 0 \/ is_zero(last.pre)) => last.res = ZeroValue
    /\ last.op = "mul_assign_word" => a = last.res
    /\ last.op = "mul_word" => a = last.pre

\* A negative a of three digits times 9, which adds a fourth digit.
C23_Witness ==
  /\ last.op = "mul_assign_word"
  /\ last.w = 9
  /\ last.pre.sign
  /\ Len(last.pre.val) = 3
  /\ Len(a.val) = 4
  /\ a.sign

\* C30: the compound operators are correct when the right-hand operand is
\* the receiver itself.  For every canonical a, a += a leaves the old
\* a + a, a -= a the non-negative zero, and a *= a the old a * a with
\* sign = false, all canonical.
C30_SelfOperand ==
  (/\ last.op \in {"add_assign_self", "sub_assign_self", "mul_assign_self"}
   /\ Canonical(last.pre)) =>
    /\ Canonical(a)
    /\ last.op = "add_assign_self" =>
         /\ OpEq(a, OpAdd(last.pre, last.pre))
         /\ Value(a) = Value(last.pre) + Value(last.pre)
    /\ last.op = "sub_assign_self" => a = ZeroValue
    /\ last.op = "mul_assign_self" =>
         /\ OpEq(a, OpMul(last.pre, last.pre))
         /\ Value(a) = Value(last.pre) * Value(last.pre)
         /\ ~a.sign

\* a += a for a negative a of three digits whose double has four.
C30_Witness ==
  /\ last.op = "add_assign_self"
  /\ last.pre.sign
  /\ Len(last.pre.val) = 3
  /\ Len(a.val) = 4
  /\ a.sign

Offending(tok, i, base) ==
  IF DigitValue(tok[i]) < 36 THEN DigitValue(tok[i]) >= base
  ELSE IF tok[i] = Minus THEN i # 1
  ELSE TRUE

\* The index of the first offending character, 0 when there is none.
FirstOffending(tok, base) ==
  IF \E i \in 1..Len(tok) : Offending(tok, i, base)
  THEN CHOOSE i \in 1..Len(tok) :
         /\ Offending(tok, i, base)
         /\ \A j \in 1..(i - 1) : ~Offending(tok, j, base)
  ELSE 0

\* C25: validation strictly precedes conversion.  For every token with at
\* least one violation the error is raised in the validation scan at the
\* first offending character (the range message names the character and
\* the base, the other message the character), before any multiply or add
\* step of the conversion has run: the digits are still [0].
C25_ValidationFirst ==
  (TextCtorRan /\ FirstOffending(last.argA.tok, last.argA.base) # 0) =>
    LET i == FirstOffending(last.argA.tok, last.argA.base)
    IN /\ last.thrown
       /\ last.ch = last.argA.tok[i]
       /\ last.why = IF DigitValue(last.argA.tok[i]) < 36 THEN "range"
                     ELSE "char"
       /\ a.val = <<0>>

\* The digits of a value are all in [0, BASE).
DigitsInRange(v) == \A i \in 1..Len(v) : v[i] \in 0..(BASE - 1)

\* C26: every accumulation step of the conversion keeps the digit store
\* well-formed.  For every base in 2..36 and every token that passes
\* validation, after each accumulator *= base and each accumulator += window
\* every digit of the accumulator is in 0..9, and after the first k digit
\* characters the magnitude is the value of that prefix in the base.
C26_ConversionSteps ==
  (/\ TextCtorRan
   /\ ~last.thrown
   /\ last.argA.base \in 2..36
   /\ DigitsPart(last.argA.tok) # <<Zero>>) =>
    LET rest == DigitsPart(last.argA.tok)
        steps == ConvertSteps(rest, last.argA.base, 0, Bigint(a.sign, <<0>>))
    IN \A k \in 1..Len(steps) :
         /\ DigitsInRange(steps[k].mul.val)
         /\ DigitsInRange(steps[k].add.val)
         /\ MagOf(steps[k].add.val)
              = PositionalValue(SubSeq(rest, 1, k), last.argA.base)

\* The receiver and the argument of the signed += that the last operator
\* ran on b: +, - run it on the copy res of the receiver, -, -= pass -b.
LastAddAssign ==
  [x |-> IF last.op \in {"add", "sub"}
         THEN OpAddAssign(BigintDefault, last.pre) ELSE last.pre,
   y |-> IF last.op \in {"sub", "sub_assign"} THEN OpNeg(b) ELSE b]

\* The call of val_monus the last operator made, if any.
LastMonus == MonusCall(LastAddAssign.x, LastAddAssign.y)

AddSubOps == {"add", "sub", "add_assign", "sub_assign"}

\* C27: the monus precondition holds at its call sites.  In every signed
\* += (and so in - and -=), whenever val_monus is called the receiver's
\* magnitude is at least the argument's, so the borrow after the most
\* significant digit is 0 and every digit of the result is in 0..9.
C27_MonusPrecondition ==
  (last.op \in AddSubOps /\ LastMonus.called) =>
    /\ MagOf(LastMonus.recv) >= MagOf(LastMonus.arg)
    /\ MonusLoop(LastMonus.recv, LastMonus.arg, 0, 0).carry = 0
    /\ DigitsInRange(MonusLoop(LastMonus.recv, LastMonus.arg, 0, 0).val)
    /\ last.res.val = val_monus(LastMonus.recv, LastMonus.arg)

\* a += b with a positive, b negative of the same number of digits and a
\* larger magnitude: val_less(b) holds and b's digits become the receiver.
C27_Witness ==
  /\ last.op = "add_assign"
  /\ LastMonus.called
  /\ ~last.pre.sign /\ b.sign
  /\ Len(last.pre.val) = Len(b.val)
  /\ Len(b.val) >= 2
  /\ LastMonus.recv = b.val
  /\ LastMonus.arg = last.pre.val
  /\ last.pre.val[1] > b.val[1]

\* C28: magnitude subtraction is exact and canonical.  For canonical digit
\* sequences a and b with |a| >= |b|, val_monus leaves |a| - |b|, computed
\* by borrow propagation from the least significant digit, with the most
\* significant zero digits trimmed but never below one digit: |a| = |b|
\* gives exactly [0].
C28_MonusExact ==
  (/\ last.op \in AddSubOps
   /\ LastMonus.called
   /\ Canonical(Bigint(FALSE, LastMonus.recv))
   /\ Canonical(Bigint(FALSE, LastMonus.arg))
   /\ MagOf(LastMonus.recv) >= MagOf(LastMonus.arg)) =>
    LET r == val_monus(LastMonus.recv, LastMonus.arg)
    IN /\ MagOf(r) = MagOf(LastMonus.recv) - MagOf(LastMonus.arg)
       /\ Canonical(Bigint(FALSE, r))
       /\ r = DecimalExpansion(MagOf(LastMonus.recv) - MagOf(LastMonus.arg))
       /\ LastMonus.recv = LastMonus.arg => r = <<0>>

\* A subtraction of two digits from three digits that borrows at the
\* lowest digit and trims two digits.
C28_Witness ==
  /\ last.op \in AddSubOps
  /\ LastMonus.called
  /\ Len(LastMonus.recv) = 3
  /\ Len(LastMonus.arg) = 2
  /\ LastMonus.recv[1] < LastMonus.arg[1]
  /\ Len(last.res.val) = 1
  /\ last.res.val # <<0>>

\* The steps of the val_mult the last operator ran: the receiver has
\* taken the sign of the product, which val_mult does not read.
LastMultSteps ==
  MultSteps(Bigint(last.pre.sign # b.sign, last.pre.val), b.val, 0,
            BigintFromInt(0).val)

\* The larger of two numbers.
Max(m, n) == IF m >= n THEN m ELSE n

\* C29: schoolbook multiplication accumulates the partial products at the
\* right offset.  After digit index i of b the running sum s is
\* |this| * (|b| mod BASE^(i+1)); each val_plus(p, i) adds |p| * BASE^i,
\* pads with zero digits when the receiver is shorter than len(p) + i and
\* pushes one more digit iff a carry remains; after the last index the
\* result is trimmed to canonical form with at least one digit.
C29_MultAccumulates ==
  (last.op \in {"mul", "mul_assign"} /\ Canonical(last.pre) /\ Canonical(b)) =>
    LET steps == LastMultSteps
    IN /\ Len(steps) = Len(b.val)
       /\ \A k \in 1..Len(steps) :
            LET st == steps[k]
                sum == MagOf(st.before) + MagOf(st.p) * (BASE ^ st.i)
                padded == Max(Len(st.before), Len(st.p) + st.i)
            IN /\ st.i = k - 1
               /\ MagOf(st.p) = Mag(last.pre) * b.val[k]
               /\ MagOf(st.after) = sum
               /\ MagOf(st.after) = Mag(last.pre) * (Mag(b) % (BASE ^ k))
               /\ DigitsInRange(st.after)
               /\ Len(st.after) = padded + (IF sum >= BASE ^ padded THEN 1 ELSE 0)
       /\ last.res.val = Trim(steps[Len(steps)].after)
       /\ Canonical(Bigint(FALSE, last.res.val))

\* A product of two operands of two digits whose second step adds the
\* partial product at offset 1 and pushes the carry that remains.
C29_Witness ==
  /\ last.op = "mul"
  /\ Len(b.val) = 2
  /\ Len(last.pre.val) = 2
  /\ Len(LastMultSteps[2].p) = 2
  /\ Len(LastMultSteps[2].before) = 3
  /\ Len(LastMultSteps[2].after) = 4
  /\ last.res.val = LastMultSteps[2].after

====
